---- MODULE Spec2Model ----
(***************************************************************************)
(* A model of the SOLAPI message service facade (src/src/solapi.ts) and    *)
(* of the blacklist request finalizer (src/unnamed/part_001).              *)
(*                                                                         *)
(* One facade call runs at a time.  A call issues requests to the          *)
(* transport collaborator (defaultFetcher); the transport answers each     *)
(* request with a response body or with an error, chosen freely.           *)
(***************************************************************************)
EXTENDS Integers, Sequences, FiniteSets, TLC

\* ------------------------------------------------------------------ bounds
MaxBatch == 2      \* longest message array given to send / sendManyFuture
MaxFailed == 2     \* longest failedMessageList in a send response
MaxCount == 2      \* largest groupInfo.count.total / registeredFailed
MaxChannels == 2   \* longest channelList in a getKakaoChannels response

\* ------------------------------------------------------- JavaScript values
\* Every JavaScript value is a record of the same four fields, so that any two
\* values can be compared.  props holds an object's own properties in
\* insertion order (or an array's elements), each a record [k, v].
Undefined == [tag |-> "undefined", fmt |-> "", n |-> 0, props |-> <<>>]
Str(f, i) == [tag |-> "string", fmt |-> f, n |-> i, props |-> <<>>]
Num(i) == [tag |-> "number", fmt |-> "", n |-> i, props |-> <<>>]
Bool(b) == [tag |-> "boolean", fmt |-> IF b THEN "true" ELSE "false", n |-> 0, props |-> <<>>]
DateObj(f, i) == [tag |-> "Date", fmt |-> f, n |-> i, props |-> <<>>]
Obj(ps) == [tag |-> "object", fmt |-> "", n |-> 0, props |-> ps]
Arr(elems) == [tag |-> "array", fmt |-> "", n |-> Len(elems),
               props |-> [i \in 1..Len(elems) |-> [k |-> "", v |-> elems[i]]]]
Null == [tag |-> "null", fmt |-> "", n |-> 0, props |-> <<>>]
Prop(key, val) == [k |-> key, v |-> val]

Keys(o) == {o.props[i].k : i \in 1..Len(o.props)}
HasKey(o, key) == key \in Keys(o)
\* o[key]: undefined when o has no such property (or o is undefined itself)
Get(o, key) ==
    IF HasKey(o, key)
    THEN o.props[CHOOSE i \in 1..Len(o.props) : o.props[i].k = key].v
    ELSE Undefined
\* o[key] = val: an existing property keeps its place, a new one is appended
SetProp(ps, key, val) ==
    IF \E i \in 1..Len(ps) : ps[i].k = key
    THEN [i \in 1..Len(ps) |-> IF ps[i].k = key THEN Prop(key, val) ELSE ps[i]]
    ELSE Append(ps, Prop(key, val))

RECURSIVE AssignProps(_, _)
AssignProps(tps, sps) ==
    IF sps = <<>> THEN tps
    ELSE AssignProps(SetProp(tps, Head(sps).k, Head(sps).v), Tail(sps))
\* Object.assign(target, source): copies source's properties onto target
ObjectAssign(target, source) == Obj(AssignProps(target.props, source.props))
\* a ?? b
Nullish(a, b) == IF a.tag \in {"undefined", "null"} THEN b ELSE a
\* if (x): JavaScript truthiness of the values the model uses
Truthy(x) == x.tag \notin {"undefined", "null"}

\* ---------------------------------------------------------------- dates
\* A date string is "iso" (full ISO-8601 with offset), "ymd" (date only) or
\* "garbage" (not parseable); n is the instant it denotes.
DateInstants == {1, 2}
DateInputs ==
    {Str(f, i) : f \in {"iso", "ymd"}, i \in DateInstants}
    \cup {DateObj("valid", i) : i \in DateInstants}
    \cup {Str("garbage", 0)}

\* the Date values a caller can hand to reserveGroup
ScheduledDates == {DateObj("valid", i) : i \in DateInstants} \cup {DateObj("invalid", 0)}

\* parseISO: a Date, invalid when the string is not parseable
parseISO(s) ==
    IF s.fmt \in {"iso", "ymd"} THEN DateObj("valid", s.n) ELSE DateObj("invalid", 0)
\* stringDateTransfer(value): the Date for a string or a Date
stringDateTransfer(value) ==
    IF value.tag = "string" THEN parseISO(value) ELSE value
\* whether the conversion of value to a date fails (it throws)
TransferThrows(value) == stringDateTransfer(value).fmt = "invalid"
\* formatISO(date): the canonical ISO-8601 string with offset
formatISO(d) == Str("iso", d.n)
formatWithTransfer(value) == formatISO(stringDateTransfer(value))

\* mutant: each date replaces dateCreated instead of being merged into it
GetBlacksFinalizeRequest_overwrite(parameter) ==
    LET f0 == Obj(<<Prop("type", Str("DENIAL", 0)),
                    Prop("senderNumber", Get(parameter, "senderNumber")),
                    Prop("startKey", Get(parameter, "startKey")),
                    Prop("limit", Get(parameter, "limit"))>>)
        f1 == IF Get(parameter, "startDate").tag \notin {"undefined", "null"}
              THEN Obj(SetProp(f0.props, "dateCreated",
                     Obj(<<Prop("gte", formatWithTransfer(Get(parameter, "startDate")))>>)))
              ELSE f0
        f2 == IF Get(parameter, "endDate").tag \notin {"undefined", "null"}
              THEN Obj(SetProp(f1.props, "dateCreated",
                     Obj(<<Prop("lte", formatWithTransfer(Get(parameter, "endDate")))>>)))
              ELSE f1
    IN f2

\* mutant: a field the request lacks is forced to null
GetBlacksFinalizeRequest_forcedNulls(parameter) ==
    LET given(key) == Nullish(Get(parameter, key), Null)
        f0 == Obj(<<Prop("type", Str("DENIAL", 0)),
                    Prop("senderNumber", given("senderNumber")),
                    Prop("startKey", given("startKey")),
                    Prop("limit", given("limit"))>>)
        f1 == IF Get(parameter, "startDate").tag \notin {"undefined", "null"}
              THEN Obj(SetProp(f0.props, "dateCreated",
                     ObjectAssign(Nullish(Get(f0, "dateCreated"), Obj(<<>>)),
                       Obj(<<Prop("gte", formatWithTransfer(Get(parameter, "startDate")))>>))))
              ELSE f0
        f2 == IF Get(parameter, "endDate").tag \notin {"undefined", "null"}
              THEN Obj(SetProp(f1.props, "dateCreated",
                     ObjectAssign(Nullish(Get(f1, "dateCreated"), Obj(<<>>)),
                       Obj(<<Prop("lte", formatWithTransfer(Get(parameter, "endDate")))>>))))
              ELSE f1
    IN f2

\* ------------------------------------------------- GetBlacksFinalizeRequest
\* new GetBlacksFinalizeRequest(parameter), when no conversion throws.
\* f0 is the field initializer (type = 'DENIAL'), f1..f6 the constructor body.
\* The fields declared without an initializer create no property; senderNumber,
\* startKey and limit become properties through the constructor's assignments
\* (bound to undefined when the request lacks them), dateCreated only through
\* the two date branches.
GetBlacksFinalizeRequest(parameter) ==
    LET f0 == Obj(<<Prop("type", Str("DENIAL", 0))>>)
        f1 == Obj(SetProp(f0.props, "type", Str("DENIAL", 0)))
        f2 == Obj(SetProp(f1.props, "senderNumber", Get(parameter, "senderNumber")))
        f3 == Obj(SetProp(f2.props, "startKey", Get(parameter, "startKey")))
        f4 == Obj(SetProp(f3.props, "limit", Get(parameter, "limit")))
        f5 == IF Get(parameter, "startDate").tag \notin {"undefined", "null"}
              THEN Obj(SetProp(f4.props, "dateCreated",
                     ObjectAssign(Nullish(Get(f4, "dateCreated"), Obj(<<>>)),
                       Obj(<<Prop("gte", formatWithTransfer(Get(parameter, "startDate")))>>))))
              ELSE f4
        f6 == IF Get(parameter, "endDate").tag \notin {"undefined", "null"}
              THEN Obj(SetProp(f5.props, "dateCreated",
                     ObjectAssign(Nullish(Get(f5, "dateCreated"), Obj(<<>>)),
                       Obj(<<Prop("lte", formatWithTransfer(Get(parameter, "endDate")))>>))))
              ELSE f5
    IN f6
\* whether the constructor throws: a supplied date that cannot be converted
GetBlacksFinalizeThrows(parameter) ==
    \/ /\ Get(parameter, "startDate").tag \notin {"undefined", "null"}
       /\ TransferThrows(Get(parameter, "startDate"))
    \/ /\ Get(parameter, "endDate").tag \notin {"undefined", "null"}
       /\ TransferThrows(Get(parameter, "endDate"))

\* ------------------------------------------------------------ qs.stringify
\* The query string is a sequence of tokens: the "?" prefix, then one token
\* per key=value pair (joined by "&").  key is the bracketed key path.
QMark == [t |-> "?", key |-> <<>>, val |-> Undefined]
Pair(path, val) == [t |-> "pair", key |-> path, val |-> val]
\* the text qs writes for a scalar: numbers and booleans as strings, a Date
\* through toISOString, everything percent-encoded
QsEncode(v) ==
    IF v.tag = "Date" THEN [tag |-> "uri", fmt |-> "isoZ", n |-> v.n, props |-> <<>>]
    ELSE [tag |-> "uri", fmt |-> IF v.tag = "string" THEN v.fmt ELSE v.tag,
          n |-> v.n, props |-> <<>>]

RECURSIVE QsPairs(_, _)
QsPairs(ps, path) ==
    IF ps = <<>> THEN <<>>
    ELSE LET p == Head(ps)
             here == CASE p.v.tag = "undefined" -> <<>>
                       [] p.v.tag = "object" -> QsPairs(p.v.props, Append(path, p.k))
                       [] p.v.tag = "array" ->
                            QsPairs([i \in 1..Len(p.v.props) |-> Prop(p.k, p.v.props[i].v)], path)
                       [] OTHER -> <<Pair(Append(path, p.k), QsEncode(p.v))>>
         IN here \o QsPairs(Tail(ps), path)
\* qs.stringify(obj, {indices: false, addQueryPrefix})
QsStringify(obj, addQueryPrefix) ==
    LET pairs == IF obj.tag = "object" THEN QsPairs(obj.props, <<>>) ELSE <<>>
    IN IF addQueryPrefix /\ pairs # <<>> THEN <<QMark>> \o pairs ELSE pairs

\* ------------------------------------------------------------------ state
VARIABLES
    op,         \* the facade method the caller invoked ("" when none)
    pc,         \* "idle", "done", or the method whose defaultFetcher call is awaited
    frame,      \* the running method's parameters and locals
    calls,      \* the requests this call has handed to defaultFetcher, in order
    delivered,  \* what defaultFetcher answered to each of them, in order
    outcome     \* the promise the facade method returned to its caller

vars == <<op, pc, frame, calls, delivered, outcome>>

baseUrl == "https://api.solapi.com"
Url(path, query) == [base |-> baseUrl, path |-> path, query |-> query]
Request(method, url, payload) == [method |-> method, url |-> url, payload |-> payload]

Error(name, list) == [name |-> name, list |-> list]
Pending == [status |-> "pending", value |-> Undefined, error |-> Error("", <<>>)]
Resolved(v) == [status |-> "resolved", value |-> v, error |-> Error("", <<>>)]
Rejected(e) == [status |-> "rejected", value |-> Undefined, error |-> e]

NoFrame == [data |-> Undefined, payload |-> Undefined, messages |-> <<>>, scheduledDate |-> Undefined, groupId |-> ""]

\* errors defaultFetcher throws: network failure or a non-2xx status
TransportErrors == {Error("NetworkError", <<>>), Error("ApiError", <<>>)}
GroupIds == {"G1", "G2"}
\* response bodies of the endpoints whose body the facade does not look into
Bodies == {Obj(<<Prop("id", Str("id", i)), Prop("balance", Num(i)), Prop("point", Num(i))>>)
              : i \in 1..2}

BoundedSeq(S, k) == UNION {[1..m -> S] : m \in 0..k}

Init ==
    /\ op = ""
    /\ pc = "idle"
    /\ frame = NoFrame
    /\ calls = <<>>
    /\ delivered = <<>>
    /\ outcome = Pending

\* the method hands a request to defaultFetcher and awaits the answer
Fetch(method, at, request) ==
    /\ op' = method
    /\ pc' = at
    /\ calls' = Append(calls, request)
    /\ outcome' = Pending
    /\ UNCHANGED delivered
\* the method throws before calling defaultFetcher the first time
ThrowEarly(method, e) ==
    /\ op' = method
    /\ pc' = "done"
    /\ outcome' = Rejected(e)
    /\ UNCHANGED <<calls, delivered>>
\* the awaited response arrived and the method settles its promise
Finish(answer, result) ==
    /\ pc' = "done"
    /\ delivered' = Append(delivered, answer)
    /\ outcome' = result
    /\ UNCHANGED <<op, frame, calls>>
Ok(body) == [ok |-> TRUE, body |-> body, error |-> Error("", <<>>)]
Failed(e) == [ok |-> FALSE, body |-> Undefined, error |-> e]

\* ------------------------------------------------------------------- send
\* new Message(value): the model object holding the parameter's fields
Message(value) == [tag |-> "Message", fmt |-> value.fmt, n |-> value.n, props |-> value.props]
MessageParameters == {Obj(<<Prop("to", Str("phone", i))>>) : i \in 1..2}
\* what a caller can pass where a message is expected without one: nothing,
\* or a value that is no message object
MalformedMessages == {Undefined, Null, Str("garbage", 0)}
SendInputs ==
    MessageParameters \cup {Arr(s) : s \in BoundedSeq(MessageParameters, MaxBatch)}
    \cup MalformedMessages
SendRequestConfigs == {Undefined, Obj(<<Prop("allowDuplicates", Bool(TRUE))>>)}

FailedMessages == {[to |-> "phone1", statusCode |-> "1062"],
                   [to |-> "phone2", statusCode |-> "3104"]}
\* DetailGroupMessageResponse: the transport decides every field
SendResponses ==
    [groupInfo : [count : [total : 0..MaxCount, registeredFailed : 0..MaxCount]],
     failedMessageList : BoundedSeq(FailedMessages, MaxFailed)]

\* mutant: only an object counts as a single message
SendBranch_objectsOnly(messages) ==
    CASE messages.tag = "array" -> "array"
      [] messages.tag = "object" -> "single"
      [] OTHER -> "invalid"
\* lines 131-139: which branch of the if / else-if / else chain the argument takes
SendBranch(messages) ==
    CASE messages.tag = "array" -> "array"
      [] ~(messages.tag = "array") -> "single"
      [] OTHER -> "invalid"
\* the payload the taken branch builds
SendPayload(messages) ==
    IF SendBranch(messages) = "array"
    THEN [i \in 1..Len(messages.props) |-> Message(messages.props[i].v)]
    ELSE IF SendBranch(messages) = "single" THEN <<Message(messages)>>
    ELSE <<>>

\* the request send hands to the fetcher (lines 145-155)
sendRequest(payload, requestConfigParameter) ==
    Request("POST", Url(<<"/messages/v4/send-many/detail">>, <<>>),
        [messages |-> payload,
         allowDuplicates |-> Get(requestConfigParameter, "allowDuplicates"),
         appId |-> Get(requestConfigParameter, "appId"),
         scheduledDate |-> Get(requestConfigParameter, "scheduledDate"),
         showMessageList |-> Get(requestConfigParameter, "showMessageList")])

\* mutant: one request per message instead of one for the batch
send_perMessage(messages, requestConfigParameter) ==
    /\ pc = "idle"
    /\ frame' = [NoFrame EXCEPT !.data = messages, !.messages = SendPayload(messages)]
    /\ LET payload == SendPayload(messages) IN
       IF Len(payload) = 0
       THEN ThrowEarly("send", Error("BadRequestError", <<"empty batch">>))
       ELSE /\ op' = "send"
            /\ pc' = "send"
            /\ calls' = [i \in 1..Len(payload) |->
                            sendRequest(<<payload[i]>>, requestConfigParameter)]
            /\ outcome' = Pending
            /\ UNCHANGED delivered
\* mutant: the empty-batch check is missing
send_noEmptyCheck(messages, requestConfigParameter) ==
    /\ pc = "idle"
    /\ frame' = [NoFrame EXCEPT !.data = messages, !.messages = SendPayload(messages)]
    /\ Fetch("send", "send", sendRequest(SendPayload(messages), requestConfigParameter))

send(messages, requestConfigParameter) ==
    /\ pc = "idle"
    /\ frame' = [NoFrame EXCEPT !.data = messages, !.messages = SendPayload(messages)]
    /\ LET payload == SendPayload(messages) IN
       IF SendBranch(messages) = "invalid"
       THEN ThrowEarly("send", Error("BadRequestError", <<"invalid value">>))
       ELSE IF Len(payload) = 0
       THEN ThrowEarly("send", Error("BadRequestError", <<"empty batch">>))
       ELSE Fetch("send", "send", sendRequest(payload, requestConfigParameter))

\* whether the .then callback of send throws the policy error
\* mutant: the comparison of the two counters is the wrong way round
SendPolicyFails_wrongComparison(res) ==
    /\ Len(res.failedMessageList) > 0
    /\ res.groupInfo.count.total < res.groupInfo.count.registeredFailed
\* mutant: any failed message raises the policy error
SendPolicyFails_anyFailure(res) == Len(res.failedMessageList) > 0
SendPolicyFails(res) ==
    /\ Len(res.failedMessageList) > 0
    /\ res.groupInfo.count.total = res.groupInfo.count.registeredFailed

\* lines 160-169: the .then callback on the fetcher's promise
send_then(res) ==
    /\ pc = "send"
    /\ IF SendPolicyFails(res)
       THEN Finish(Ok(res), Rejected(Error("MessageNotReceivedError", res.failedMessageList)))
       ELSE Finish(Ok(res), Resolved(res))

\* mutant: a transport failure is reported as the policy error
send_rejected_asPolicyError(e) ==
    /\ pc = "send"
    /\ Finish(Failed(e), Rejected(Error("MessageNotReceivedError", <<>>)))
\* .then has no rejection handler: the fetcher's error is the promise's error
send_rejected(e) ==
    /\ pc = "send"
    /\ Finish(Failed(e), Rejected(e))

\* -------------------------------------------------------- group requests
defaultAgent == [sdkVersion |-> Str("sdkVersion", 0), osPlatform |-> Str("osPlatform", 0)]
\* lines 265-279: the request createGroup hands to the fetcher
createGroupRequest(allowDuplicates, appId) ==
    Request("POST", Url(<<"/messages/v4/groups">>, <<>>),
        Obj(<<Prop("sdkVersion", defaultAgent.sdkVersion),
              Prop("osPlatform", defaultAgent.osPlatform),
              Prop("allowDuplicates", Nullish(allowDuplicates, Bool(FALSE))),
              Prop("appId", appId)>>))
\* lines 293-301
addMessagesToGroupRequest(groupId, messages) ==
    Request("PUT", Url(<<"/messages/v4/groups/", groupId, "/messages">>, <<>>),
        Obj(<<Prop("messages", Arr(messages))>>))
\* mutant: the Date is put in the payload without formatting it
reserveGroupRequest_rawDate(groupId, scheduledDate) ==
    Request("POST", Url(<<"/messages/v4/groups/", groupId, "/schedule">>, <<>>),
        Obj(<<Prop("scheduledDate", scheduledDate)>>))
\* lines 325-336; scheduledDate is a valid Date
reserveGroupRequest(groupId, scheduledDate) ==
    Request("POST", Url(<<"/messages/v4/groups/", groupId, "/schedule">>, <<>>),
        Obj(<<Prop("scheduledDate", formatISO(scheduledDate))>>))
\* formatISO throws RangeError on an invalid Date
FormatISOThrows(d) == d.fmt = "invalid"

CreateGroupResponses == {Obj(<<Prop("groupId", Str(g, 0))>>) : g \in GroupIds}
Messages == {Message(m) : m \in MessageParameters}
AppIds == {Undefined, Str("appId", 1)}
AllowDuplicates == {Undefined, Bool(TRUE), Bool(FALSE)}

createGroup(allowDuplicates, appId) ==
    /\ pc = "idle"
    /\ Fetch("createGroup", "createGroup", createGroupRequest(allowDuplicates, appId))
    /\ frame' = NoFrame
\* line 280: .then(res => res.groupId)
createGroup_then(res) ==
    /\ op = "createGroup" /\ pc = "createGroup"
    /\ Finish(Ok(res), Resolved(Get(res, "groupId")))

addMessagesToGroup(groupId, messages) ==
    /\ pc = "idle"
    /\ Fetch("addMessagesToGroup", "addMessagesToGroup",
             addMessagesToGroupRequest(groupId, messages))
    /\ frame' = [NoFrame EXCEPT !.groupId = groupId, !.messages = messages]

reserveGroup(groupId, scheduledDate) ==
    /\ pc = "idle"
    /\ frame' = [NoFrame EXCEPT !.groupId = groupId, !.scheduledDate = scheduledDate]
    /\ IF FormatISOThrows(scheduledDate)
       THEN ThrowEarly("reserveGroup", Error("RangeError", <<>>))
       ELSE Fetch("reserveGroup", "reserveGroup", reserveGroupRequest(groupId, scheduledDate))

\* addMessagesToGroup and reserveGroup return the fetcher's promise itself
groupCall_resolved(res) ==
    /\ op \in {"addMessagesToGroup", "reserveGroup"} /\ pc = op
    /\ Finish(Ok(res), Resolved(res))
groupCall_rejected(e) ==
    /\ op \in {"createGroup", "addMessagesToGroup", "reserveGroup"} /\ pc = op
    /\ Finish(Failed(e), Rejected(e))

\* ------------------------------------------ sendOneFuture / sendManyFuture
FutureOps == {"sendOneFuture", "sendManyFuture"}

\* line 202: const groupId = await this.createGroup()
sendOneFuture(message, scheduledDate) ==
    /\ pc = "idle"
    /\ Fetch("sendOneFuture", "createGroup", createGroupRequest(Undefined, Undefined))
    /\ frame' = [NoFrame EXCEPT !.messages = <<message>>, !.scheduledDate = scheduledDate]
\* line 252: const groupId = await this.createGroup(allowDuplicates, appId);
\* the parameter default makes an omitted allowDuplicates false
sendManyFuture(messages, scheduledDate, allowDuplicates, appId) ==
    /\ pc = "idle"
    /\ Fetch("sendManyFuture", "createGroup",
             createGroupRequest(IF allowDuplicates.tag = "undefined" THEN Bool(FALSE)
                                ELSE allowDuplicates, appId))
    /\ frame' = [NoFrame EXCEPT !.messages = messages, !.scheduledDate = scheduledDate]

\* mutant: addMessagesToGroup is not awaited, reserveGroup is called at once
sendFuture_afterCreateGroup_notAwaited(res) ==
    /\ op \in FutureOps /\ pc = "createGroup"
    /\ ~TransferThrows(frame.scheduledDate)
    /\ LET groupId == Get(res, "groupId").fmt IN
       /\ pc' = "reserveGroup"
       /\ frame' = [frame EXCEPT !.groupId = groupId]
       /\ calls' = calls \o <<addMessagesToGroupRequest(groupId, frame.messages),
                              reserveGroupRequest(groupId, stringDateTransfer(frame.scheduledDate))>>
    /\ delivered' = Append(delivered, Ok(res))
    /\ UNCHANGED <<op, outcome>>
\* lines 202-203 / 252-253: createGroup resolved with the group id, then
\* await this.addMessagesToGroup(groupId, messages)
sendFuture_afterCreateGroup(res) ==
    /\ op \in FutureOps /\ pc = "createGroup"
    /\ LET groupId == Get(res, "groupId").fmt IN
       /\ pc' = "addMessagesToGroup"
       /\ frame' = [frame EXCEPT !.groupId = groupId]
       /\ calls' = Append(calls, addMessagesToGroupRequest(groupId, frame.messages))
    /\ delivered' = Append(delivered, Ok(res))
    /\ UNCHANGED <<op, outcome>>

\* lines 204-205 / 254-255: addMessagesToGroup resolved, then
\* scheduledDate = stringDateTransfer(scheduledDate); return this.reserveGroup(...)
sendFuture_afterAddMessages(res) ==
    /\ op \in FutureOps /\ pc = "addMessagesToGroup"
    /\ delivered' = Append(delivered, Ok(res))
    /\ IF TransferThrows(frame.scheduledDate)
       THEN /\ pc' = "done"
            /\ outcome' = Rejected(Error("InvalidDateError", <<>>))
            /\ UNCHANGED <<op, frame, calls>>
       ELSE /\ pc' = "reserveGroup"
            /\ frame' = [frame EXCEPT !.scheduledDate = stringDateTransfer(frame.scheduledDate)]
            /\ calls' = Append(calls,
                  reserveGroupRequest(frame.groupId, stringDateTransfer(frame.scheduledDate)))
            /\ UNCHANGED <<op, outcome>>

\* the promise of reserveGroup is the promise the method returned
sendFuture_afterReserve(res) ==
    /\ op \in FutureOps /\ pc = "reserveGroup"
    /\ Finish(Ok(res), Resolved(res))

\* mutant: a failed step is ignored and the next step is taken
sendFuture_rejected_continue(e) ==
    /\ op \in FutureOps /\ pc \in {"createGroup", "addMessagesToGroup", "reserveGroup"}
    /\ delivered' = Append(delivered, Failed(e))
    /\ IF pc = "createGroup"
       THEN /\ pc' = "addMessagesToGroup"
            /\ calls' = Append(calls, addMessagesToGroupRequest("", frame.messages))
            /\ UNCHANGED <<op, frame, outcome>>
       ELSE /\ pc' = "done"
            /\ outcome' = Rejected(e)
            /\ UNCHANGED <<op, frame, calls>>
\* no step has a catch: an awaited rejection rejects the method's promise
sendFuture_rejected(e) ==
    /\ op \in FutureOps /\ pc \in {"createGroup", "addMessagesToGroup", "reserveGroup"}
    /\ Finish(Failed(e), Rejected(e))

\* ---------------------------------------------------------- list queries
\* an object literal whose optional fields are left out when not given
MkObj(ps) == Obj(SelectSeq(ps, LAMBDA p : p.v.tag # "undefined"))
OptDates == {Undefined} \cup DateInputs
GetBlacksRequests ==
    {MkObj(<<Prop("senderNumber", s), Prop("startKey", k), Prop("limit", l),
             Prop("startDate", sd), Prop("endDate", ed)>>) :
        s \in {Undefined, Str("phone", 1)}, k \in {Undefined, Str("key", 1)},
        l \in {Undefined, Num(1)}, sd \in OptDates, ed \in OptDates}
\* the request shape of the other list queries: paging fields and a date range
ListRequests ==
    {MkObj(<<Prop("startKey", k), Prop("limit", l),
             Prop("startDate", sd), Prop("endDate", ed)>>) :
        k \in {Undefined, Str("key", 1)}, l \in {Undefined, Num(1)},
        sd \in OptDates, ed \in OptDates}
GetGroupMessagesRequests ==
    {MkObj(<<Prop("startKey", k), Prop("limit", l)>>) :
        k \in {Undefined, Str("key", 1)}, l \in {Undefined, Num(1)}}

\* The finalizers of the other request families (GetGroupsFinalizeRequest,
\* GetMessagesFinalizeRequest, GetStatisticsFinalizeRequest,
\* GetKakaoChannelsFinalizeRequest, GetKakaoAlimtalkTemplatesFinalizeRequest,
\* GetBlockGroupsFinalizeRequest, GetBlockNumbersFinalizeRequest): given fields
\* are kept, absent ones stay absent, startDate / endDate fold into dateCreated.
FinalizeListRequest(parameter) ==
    LET f0 == Obj(SelectSeq(parameter.props, LAMBDA p : p.k \notin {"startDate", "endDate"}))
        f1 == IF Get(parameter, "startDate").tag \notin {"undefined", "null"}
              THEN Obj(SetProp(f0.props, "dateCreated",
                     ObjectAssign(Nullish(Get(f0, "dateCreated"), Obj(<<>>)),
                       Obj(<<Prop("gte", formatWithTransfer(Get(parameter, "startDate")))>>))))
              ELSE f0
        f2 == IF Get(parameter, "endDate").tag \notin {"undefined", "null"}
              THEN Obj(SetProp(f1.props, "dateCreated",
                     ObjectAssign(Nullish(Get(f1, "dateCreated"), Obj(<<>>)),
                       Obj(<<Prop("lte", formatWithTransfer(Get(parameter, "endDate")))>>))))
              ELSE f1
    IN f2
FinalizeListThrows(parameter) == GetBlacksFinalizeThrows(parameter)

\* let payload = {}; if (data) payload = new ...FinalizeRequest(data);
\* qs.stringify(payload, {indices: false, addQueryPrefix: true}); GET base+path+parameter
ListQuery(method, path, data) ==
    /\ pc = "idle"
    /\ frame' = [NoFrame EXCEPT !.data = data, !.payload =
                    IF Truthy(data)
                    THEN IF FinalizeListThrows(data) THEN Undefined ELSE FinalizeListRequest(data)
                    ELSE Obj(<<>>)]
    /\ IF Truthy(data) /\ FinalizeListThrows(data)
       THEN ThrowEarly(method, Error("InvalidDateError", <<>>))
       ELSE LET payload == IF Truthy(data) THEN FinalizeListRequest(data) ELSE Obj(<<>>)
                parameter == QsStringify(payload, TRUE)
            IN Fetch(method, method, Request("GET", Url(path, parameter), Undefined))

getGroups(data) == ListQuery("getGroups", <<"/messages/v4/groups">>, data)
getMessages(data) == ListQuery("getMessages", <<"/messages/v4/list">>, data)
getStatistics(data) == ListQuery("getStatistics", <<"/messages/v4/statistics">>, data)
getBlockGroups(data) == ListQuery("getBlockGroups", <<"/iam/v1/block/groups">>, data)
getBlockNumbers(data) == ListQuery("getBlockNumbers", <<"/iam/v1/block/numbers">>, data)

\* data goes to qs.stringify as it is
getGroupMessages(groupId, data) ==
    /\ pc = "idle"
    /\ Fetch("getGroupMessages", "getGroupMessages",
         Request("GET", Url(<<"/messages/v4/groups/", groupId, "/messages">>,
                            QsStringify(data, TRUE)), Undefined))
    /\ frame' = [NoFrame EXCEPT !.groupId = groupId, !.data = data]

\* mutant: the payload for a missing request starts empty, as in the other queries
getBlacksPayload_noDefault(data) ==
    IF Truthy(data) THEN GetBlacksFinalizeRequest(data) ELSE Obj(<<>>)
\* let payload = { type: 'DENIAL' }; if (data) payload = new GetBlacksFinalizeRequest(data)
getBlacksPayload(data) ==
    IF Truthy(data) THEN GetBlacksFinalizeRequest(data)
    ELSE Obj(<<Prop("type", Str("DENIAL", 0))>>)
getBlacks(data) ==
    /\ pc = "idle"
    /\ frame' = [NoFrame EXCEPT !.data = data, !.payload =
                    IF Truthy(data) /\ GetBlacksFinalizeThrows(data) THEN Undefined
                    ELSE getBlacksPayload(data)]
    /\ IF Truthy(data) /\ GetBlacksFinalizeThrows(data)
       THEN ThrowEarly("getBlacks", Error("InvalidDateError", <<>>))
       ELSE Fetch("getBlacks", "getBlacks",
                 Request("GET", Url(<<"/iam/v1/black">>,
                                    QsStringify(getBlacksPayload(data), TRUE)), Undefined))

\* qs.stringify(payload, {indices: false}); `${baseUrl}/kakao/v2/...?${parameter}`
KakaoListQuery(method, path, data) ==
    /\ pc = "idle"
    /\ frame' = [NoFrame EXCEPT !.data = data, !.payload =
                    IF Truthy(data)
                    THEN IF FinalizeListThrows(data) THEN Undefined ELSE FinalizeListRequest(data)
                    ELSE Obj(<<>>)]
    /\ IF Truthy(data) /\ FinalizeListThrows(data)
       THEN ThrowEarly(method, Error("InvalidDateError", <<>>))
       ELSE LET payload == IF Truthy(data) THEN FinalizeListRequest(data) ELSE Obj(<<>>)
                parameter == QsStringify(payload, FALSE)
            IN Fetch(method, method,
                     Request("GET", Url(path, <<QMark>> \o parameter), Undefined))
getKakaoChannels(data) == KakaoListQuery("getKakaoChannels", <<"/kakao/v2/channels">>, data)
getKakaoAlimtalkTemplates(data) ==
    KakaoListQuery("getKakaoAlimtalkTemplates", <<"/kakao/v2/templates">>, data)

PlainListOps == {"getGroups", "getGroupMessages", "getMessages", "getStatistics",
                 "getBlacks", "getBlockGroups", "getBlockNumbers"}
KakaoListOps == {"getKakaoChannels", "getKakaoAlimtalkTemplates"}
ListOps == PlainListOps \cup KakaoListOps

\* the plain list queries return the fetcher's promise itself
listQuery_resolved(res) ==
    /\ op \in PlainListOps /\ pc = op
    /\ Finish(Ok(res), Resolved(res))
listQuery_rejected(e) ==
    /\ op \in PlainListOps /\ pc = op
    /\ Finish(Failed(e), Rejected(e))

\* raw entries of a page, and the model objects built from them
RawEntries == {[id |-> "c1", name |-> "one"], [id |-> "c2", name |-> "two"]}
KakaoChannel(raw) == [class |-> "KakaoChannel", id |-> raw.id, name |-> raw.name]
KakaoAlimtalkTemplate(raw) == [class |-> "KakaoAlimtalkTemplate", id |-> raw.id, name |-> raw.name]
PageResponses ==
    [limit : {20}, startKey : {"k1"}, nextKey : {"null", "k2"},
     list : BoundedSeq(RawEntries, MaxChannels)]

\* mutant: the channels are collected in reverse and nextKey is lost
getKakaoChannels_resume_reversed(res) ==
    /\ op = "getKakaoChannels" /\ pc = op
    /\ Finish(Ok(res),
         Resolved([limit |-> res.limit, nextKey |-> "null", startKey |-> res.startKey,
                   channelList |-> [i \in 1..Len(res.list) |->
                                       KakaoChannel(res.list[Len(res.list) + 1 - i])]]))
\* lines 592-601: one KakaoChannel per raw entry, paging fields copied
getKakaoChannels_resume(res) ==
    /\ op = "getKakaoChannels" /\ pc = op
    /\ Finish(Ok(res),
         Resolved([limit |-> res.limit, nextKey |-> res.nextKey, startKey |-> res.startKey,
                   channelList |-> [i \in 1..Len(res.list) |-> KakaoChannel(res.list[i])]]))
\* lines 688-698
getKakaoAlimtalkTemplates_resume(res) ==
    /\ op = "getKakaoAlimtalkTemplates" /\ pc = op
    /\ Finish(Ok(res),
         Resolved([limit |-> res.limit, nextKey |-> res.nextKey, startKey |-> res.startKey,
                   templateList |-> [i \in 1..Len(res.list) |-> KakaoAlimtalkTemplate(res.list[i])]]))
\* the await throws: the async method's promise rejects with the same error
kakaoList_rejected(e) ==
    /\ op \in KakaoListOps /\ pc = op
    /\ Finish(Failed(e), Rejected(e))

\* ------------------------------------------------- single-request methods
\* Each row is a method that builds one request from its arguments and hands
\* it to the fetcher: [op, method, pre, id, post, payload, wrap].  The URL path
\* is pre, then the id argument when id is TRUE, then post; payload tells
\* whether a body is passed; wrap names what the method does with the response.
Row(o, m, pre, id, post, payload, wrap) ==
    [op |-> o, method |-> m, pre |-> pre, id |-> id, post |-> post,
     payload |-> payload, wrap |-> wrap]
SingleOps == {
    Row("sendOne", "POST", "/messages/v4/send", FALSE, "", TRUE, "none"),
    Row("sendMany", "POST", "/messages/v4/send-many", FALSE, "", TRUE, "none"),
    Row("sendGroup", "POST", "/messages/v4/groups/", TRUE, "/send", FALSE, "none"),
    Row("getGroup", "GET", "/messages/v4/groups/", TRUE, "", FALSE, "none"),
    Row("removeGroupMessages", "DELETE", "/messages/v4/groups/", TRUE, "/messages", TRUE, "none"),
    Row("removeReservationToGroup", "DELETE", "/messages/v4/groups/", TRUE, "/schedule", FALSE, "none"),
    Row("removeGroup", "DELETE", "/messages/v4/groups/", TRUE, "", FALSE, "none"),
    Row("getBalance", "GET", "/cash/v1/balance", FALSE, "", FALSE, "balance"),
    Row("getKakaoChannelCategories", "GET", "/kakao/v2/channels/categories", FALSE, "", FALSE, "none"),
    Row("getKakaoChannel", "GET", "/kakao/v2/channels/", TRUE, "", FALSE, "model"),
    Row("requestKakaoChannelToken", "POST", "/kakao/v2/channels/token", FALSE, "", TRUE, "none"),
    Row("createKakaoChannel", "POST", "/kakao/v2/channels", FALSE, "", TRUE, "none"),
    Row("removeKakaoChannel", "DELETE", "/kakao/v2/channels/", TRUE, "", FALSE, "none"),
    Row("getKakaoAlimtalkTemplate", "GET", "/kakao/v2/templates/", TRUE, "", FALSE, "model"),
    Row("getKakaoAlimtalkTemplateCategories", "GET", "/kakao/v2/templates/categories", FALSE, "", FALSE, "none"),
    Row("createKakaoAlimtalkTemplate", "POST", "/kakao/v2/templates", FALSE, "", TRUE, "model"),
    Row("requestInspectionKakaoAlimtalkTemplate", "PUT", "/kakao/v2/templates/", TRUE, "/inspection", FALSE, "model"),
    Row("cancelInspectionKakaoAlimtalkTemplate", "PUT", "/kakao/v2/templates/", TRUE, "/inspection/cancel", FALSE, "model"),
    Row("updateKakaoAlimtalkTemplate", "PUT", "/kakao/v2/templates/", TRUE, "", TRUE, "model"),
    Row("updateKakaoAlimtalkTemplateName", "PUT", "/kakao/v2/templates/", TRUE, "/name", TRUE, "model"),
    Row("deleteKakaoAlimtalkTemplate", "DELETE", "/kakao/v2/templates/", TRUE, "", FALSE, "model"),
    Row("removeKakaoAlimtalkTemplate", "DELETE", "/kakao/v2/templates/", TRUE, "", FALSE, "model"),
    Row("uploadFile", "POST", "/storage/v1/files", FALSE, "", TRUE, "none")}
SingleOpNames == {r.op : r \in SingleOps}
RowOf(o) == CHOOSE r \in SingleOps : r.op = o
Ids == {"id1", "id2"}
Payloads == {Obj(<<Prop("data", Num(i))>>) : i \in 1..2}

SinglePath(r, id) == IF r.id THEN <<r.pre, id, r.post>> ELSE <<r.pre>>
singleCall(r, id, data) ==
    /\ pc = "idle"
    /\ r.op # "uploadFile"
    /\ Fetch(r.op, r.op,
         Request(r.method, Url(SinglePath(r, id), <<>>), IF r.payload THEN data ELSE Undefined))
    /\ frame' = [NoFrame EXCEPT !.data = data, !.groupId = id]

\* uploadFile awaits ImageToBase64(filePath) before it builds its request;
\* reading the file can fail
uploadFile(readable, data) ==
    /\ pc = "idle"
    /\ frame' = [NoFrame EXCEPT !.data = data]
    /\ IF ~readable
       THEN ThrowEarly("uploadFile", Error("FileReadError", <<>>))
       ELSE Fetch("uploadFile", "uploadFile",
              Request("POST", Url(SinglePath(RowOf("uploadFile"), ""), <<>>), data))

\* what the method returns for the response res
SingleResult(r, res) ==
    CASE r.wrap = "balance" ->
           Obj(<<Prop("balance", Get(res, "balance")), Prop("point", Get(res, "point"))>>)
      [] r.wrap = "model" ->
           [tag |-> "model", fmt |-> res.fmt, n |-> res.n, props |-> res.props]
      [] OTHER -> res
singleCall_resolved(res) ==
    /\ op \in SingleOpNames /\ pc = op
    /\ Finish(Ok(res), Resolved(SingleResult(RowOf(op), res)))
singleCall_rejected(e) ==
    /\ op \in SingleOpNames /\ pc = op
    /\ Finish(Failed(e), Rejected(e))

\* the caller has observed the settled promise; the facade keeps no state
Settle ==
    /\ pc = "done"
    /\ op' = ""
    /\ pc' = "idle"
    /\ frame' = NoFrame
    /\ calls' = <<>>
    /\ delivered' = <<>>
    /\ outcome' = Pending

Next ==
    \/ \E m \in SendInputs, c \in SendRequestConfigs : send(m, c)
    \/ \E res \in SendResponses : send_then(res)
    \/ \E e \in TransportErrors : send_rejected(e)
    \/ \E a \in AllowDuplicates, id \in AppIds : createGroup(a, id)
    \/ \E res \in CreateGroupResponses : createGroup_then(res)
    \/ \E g \in GroupIds, ms \in BoundedSeq(Messages, MaxBatch) : addMessagesToGroup(g, ms)
    \/ \E g \in GroupIds, d \in ScheduledDates : reserveGroup(g, d)
    \/ \E res \in Bodies : groupCall_resolved(res)
    \/ \E e \in TransportErrors : groupCall_rejected(e)
    \/ \E m \in Messages, d \in DateInputs : sendOneFuture(m, d)
    \/ \E ms \in BoundedSeq(Messages, MaxBatch), d \in DateInputs,
          a \in AllowDuplicates, id \in AppIds : sendManyFuture(ms, d, a, id)
    \/ \E res \in CreateGroupResponses : sendFuture_afterCreateGroup(res)
    \/ \E res \in Bodies : sendFuture_afterAddMessages(res)
    \/ \E res \in Bodies : sendFuture_afterReserve(res)
    \/ \E e \in TransportErrors : sendFuture_rejected(e)
    \/ \E d \in {Undefined} \cup ListRequests :
          \/ getGroups(d)
          \/ getMessages(d)
          \/ getStatistics(d)
          \/ getBlockGroups(d)
          \/ getBlockNumbers(d)
          \/ getKakaoChannels(d)
          \/ getKakaoAlimtalkTemplates(d)
    \/ \E g \in GroupIds, d \in {Undefined} \cup GetGroupMessagesRequests : getGroupMessages(g, d)
    \/ \E d \in {Undefined} \cup GetBlacksRequests : getBlacks(d)
    \/ \E res \in Bodies : listQuery_resolved(res)
    \/ \E e \in TransportErrors : listQuery_rejected(e)
    \/ \E res \in PageResponses : getKakaoChannels_resume(res)
    \/ \E res \in PageResponses : getKakaoAlimtalkTemplates_resume(res)
    \/ \E e \in TransportErrors : kakaoList_rejected(e)
    \/ \E r \in SingleOps, id \in Ids, d \in Payloads : singleCall(r, id, d)
    \/ \E readable \in BOOLEAN, d \in Payloads : uploadFile(readable, d)
    \/ \E res \in Bodies : singleCall_resolved(res)
    \/ \E e \in TransportErrors : singleCall_rejected(e)
    \/ Settle

Spec == Init /\ [][Next]_vars

\* ================================================================= claims
SendAnswered == op = "send" /\ pc = "done" /\ delivered # <<>> /\ delivered[1].ok
SendCounters == delivered[1].body.groupInfo.count

\* C1: for a single message or an array of n >= 1 messages, send hands exactly
\* one request to the transport, POST /messages/v4/send-many/detail, whatever
\* n is and however the call ends.
C1_SendIssuesOneCall ==
    (op = "send" /\ Len(frame.messages) >= 1) =>
        /\ Len(calls) = 1
        /\ calls[1].method = "POST"
        /\ calls[1].url.path = <<"/messages/v4/send-many/detail">>
        /\ calls[1].url.query = <<>>
C1_Witness ==
    /\ op = "send" /\ pc = "done" /\ Len(frame.messages) = MaxBatch /\ MaxBatch > 1
    /\ outcome.status = "rejected" /\ outcome.error.name = "MessageNotReceivedError"
    /\ Len(calls) = 1

\* C2: send with an empty array fails with BadRequestError and has handed no
\* request to the transport, at the moment it fails and for as long as the
\* call exists.
C2_EmptyBatchRejected ==
    (op = "send" /\ frame.data.tag = "array" /\ frame.data.n = 0) =>
        /\ pc = "done"
        /\ outcome.status = "rejected"
        /\ outcome.error.name = "BadRequestError"
        /\ calls = <<>>
        /\ delivered = <<>>
C2_Witness ==
    /\ op = "send" /\ frame.data = Arr(<<>>) /\ outcome.status = "rejected"
    /\ calls = <<>>

\* C3 as stated: whenever the response's registeredFailed equals its total,
\* send fails with MessageNotReceivedError carrying the response's
\* failedMessageList.
C3_Original ==
    (SendAnswered /\ SendCounters.registeredFailed = SendCounters.total) =>
        /\ outcome.status = "rejected"
        /\ outcome.error = Error("MessageNotReceivedError", delivered[1].body.failedMessageList)
\* C3 amended: whenever the response's registeredFailed equals its total and
\* its failedMessageList is not empty, send fails with MessageNotReceivedError
\* carrying exactly the response's failedMessageList; with an empty
\* failedMessageList send resolves with the response.
C3_AllFailedRaisesPolicyError ==
    (SendAnswered /\ SendCounters.registeredFailed = SendCounters.total) =>
        IF Len(delivered[1].body.failedMessageList) > 0
        THEN /\ outcome.status = "rejected"
             /\ outcome.error =
                  Error("MessageNotReceivedError", delivered[1].body.failedMessageList)
        ELSE outcome = Resolved(delivered[1].body)
C3_Witness ==
    /\ SendAnswered
    /\ SendCounters.registeredFailed = MaxCount /\ SendCounters.total = MaxCount
    /\ Len(delivered[1].body.failedMessageList) = MaxFailed /\ MaxFailed > 0
    /\ outcome.error.name = "MessageNotReceivedError"
    /\ outcome.error.list = delivered[1].body.failedMessageList

\* C4: whenever the response's registeredFailed is strictly less than its
\* total, send resolves and its result is the response itself, unchanged,
\* however many messages failed.
C4_PartialFailureReturnsResponse ==
    (SendAnswered /\ SendCounters.registeredFailed < SendCounters.total) =>
        outcome = Resolved(delivered[1].body)
C4_Witness ==
    /\ SendAnswered
    /\ SendCounters.registeredFailed > 0
    /\ SendCounters.registeredFailed < SendCounters.total
    /\ Len(delivered[1].body.failedMessageList) > 0
    /\ outcome.status = "resolved" /\ outcome.value = delivered[1].body

\* C5: in sendOneFuture and sendManyFuture, when a step's request fails no
\* further request is issued (no later step, no DELETE for cleanup) and the
\* method fails with that step's error.
C5_FailedStepStopsComposite ==
    op \in FutureOps =>
        \A i \in 1..Len(delivered) :
            ~delivered[i].ok =>
                /\ pc = "done"
                /\ i = Len(delivered)
                /\ Len(calls) = i
                /\ outcome = Rejected(delivered[i].error)
                /\ \A j \in 1..Len(calls) : calls[j].method # "DELETE"
C5_Witness ==
    /\ op = "sendManyFuture" /\ pc = "done"
    /\ Len(calls) = 2 /\ Len(delivered) = 2
    /\ delivered[1].ok /\ ~delivered[2].ok
    /\ outcome = Rejected(delivered[2].error)

\* the errors with which the facade rejects caller input
ValidationErrors == {"BadRequestError", "InvalidDateError", "RangeError"}
\* C6: every rejection of caller input happens while the call has handed no
\* request to the transport, also the rejection of an inconvertible
\* scheduledDate in sendOneFuture and sendManyFuture.
C6_ValidationBeforeAnyRequest ==
    (outcome.status = "rejected" /\ outcome.error.name \in ValidationErrors) =>
        calls = <<>>

BlacksPayloadBuilt == op = "getBlacks" /\ calls # <<>>
Supplied(data, key) == Get(data, key).tag \notin {"undefined", "null"}
\* C7: the finalized blacklist request's dateCreated has gte exactly when
\* startDate was supplied and lte exactly when endDate was supplied (both when
\* both were), and there is no dateCreated when neither was.
C7_RangeKeysFollowDates ==
    (BlacksPayloadBuilt /\ Truthy(frame.data)) =>
        LET dateCreated == Get(frame.payload, "dateCreated") IN
        /\ HasKey(dateCreated, "gte") <=> Supplied(frame.data, "startDate")
        /\ HasKey(dateCreated, "lte") <=> Supplied(frame.data, "endDate")
        /\ HasKey(frame.payload, "dateCreated") <=>
              (Supplied(frame.data, "startDate") \/ Supplied(frame.data, "endDate"))
        /\ Supplied(frame.data, "startDate") =>
              Get(dateCreated, "gte") = Str("iso", Get(frame.data, "startDate").n)
        /\ Supplied(frame.data, "endDate") =>
              Get(dateCreated, "lte") = Str("iso", Get(frame.data, "endDate").n)
C7_Witness ==
    /\ BlacksPayloadBuilt
    /\ Get(frame.data, "startDate") = DateObj("valid", 1)
    /\ Get(frame.data, "endDate") = Str("ymd", 2)
    /\ Keys(Get(frame.payload, "dateCreated")) = {"gte", "lte"}

\* C8: the payload getBlacks serializes has type 'DENIAL', with or without a
\* request, and the type is in the query string; finalizing {startDate: d}
\* gives type 'DENIAL' and a dateCreated with gte only.
C8_BlacksTypeIsDenial ==
    BlacksPayloadBuilt =>
        /\ Get(frame.payload, "type") = Str("DENIAL", 0)
        /\ \E i \in 1..Len(calls[1].url.query) :
              calls[1].url.query[i] = Pair(<<"type">>, QsEncode(Str("DENIAL", 0)))
        /\ (Truthy(frame.data) /\ Keys(frame.data) = {"startDate"}) =>
              Keys(Get(frame.payload, "dateCreated")) = {"gte"}
C8_Witness ==
    /\ BlacksPayloadBuilt /\ ~Truthy(frame.data)
    /\ calls[1].url.query = <<QMark, Pair(<<"type">>, QsEncode(Str("DENIAL", 0)))>>
C8_ScenarioWitness ==
    /\ BlacksPayloadBuilt /\ frame.data = Obj(<<Prop("startDate", Str("iso", 1))>>)
    /\ Get(frame.payload, "dateCreated") = Obj(<<Prop("gte", Str("iso", 1))>>)

\* C9: when the transport fails a request with error e, the facade method
\* fails with e itself, for every method: no other error, no result.
C9_TransportErrorPropagates ==
    \A i \in 1..Len(delivered) :
        ~delivered[i].ok =>
            /\ pc = "done"
            /\ outcome.status = "rejected"
            /\ outcome.error = delivered[i].error
            /\ outcome.value = Undefined
C9_Witness ==
    /\ op = "send" /\ pc = "done" /\ delivered # <<>> /\ ~delivered[1].ok
    /\ outcome.error \in TransportErrors
C9_KakaoWitness ==
    /\ op = "getKakaoChannels" /\ pc = "done" /\ delivered # <<>> /\ ~delivered[1].ok
    /\ outcome = Rejected(delivered[1].error)

HasQMark(q) == \E i \in 1..Len(q) : q[i].t = "?"
HasPair(q) == \E i \in 1..Len(q) : q[i].t = "pair"
\* C10: in every list query the URL has a "?" after the path only when the
\* serialized query string is not empty; with no request and nothing to
\* serialize the URL is the base URL plus the path.
C10_QuestionMarkOnlyWithQuery ==
    (op \in ListOps /\ calls # <<>>) =>
        /\ HasQMark(calls[1].url.query) => HasPair(calls[1].url.query)
        /\ (~Truthy(frame.data) /\ ~HasPair(calls[1].url.query)) => calls[1].url.query = <<>>
\* the seven list queries that let qs write the prefix do satisfy it
PlainListQuestionMark ==
    (op \in PlainListOps /\ calls # <<>>) =>
        (HasQMark(calls[1].url.query) <=> HasPair(calls[1].url.query))

OptionalBlacksFields == {"senderNumber", "startKey", "limit"}
Serialized(q, key) == \E i \in 1..Len(q) : q[i].t = "pair" /\ q[i].key[1] = key
\* C11 as stated: every optional field the blacklist request lacks is no key
\* of the finalized request and is not in the query string.
C11_Original ==
    (BlacksPayloadBuilt /\ Truthy(frame.data)) =>
        \A key \in OptionalBlacksFields :
            ~HasKey(frame.data, key) =>
                /\ ~HasKey(frame.payload, key)
                /\ ~Serialized(calls[1].url.query, key)
\* C11 amended: every optional field the blacklist request lacks is a key of
\* the finalized request bound to undefined (never to null or to a value) and
\* is not in the query string.
C11_AbsentFieldsUndefinedAndUnserialized ==
    (BlacksPayloadBuilt /\ Truthy(frame.data)) =>
        \A key \in OptionalBlacksFields :
            ~HasKey(frame.data, key) =>
                /\ HasKey(frame.payload, key)
                /\ Get(frame.payload, key) = Undefined
                /\ ~Serialized(calls[1].url.query, key)
C11_Witness ==
    /\ BlacksPayloadBuilt
    /\ Keys(frame.data) = {"startKey"}
    /\ Keys(frame.payload) = {"type", "senderNumber", "startKey", "limit"}
    /\ Get(frame.payload, "limit") = Undefined
    /\ Serialized(calls[1].url.query, "startKey")
    /\ ~Serialized(calls[1].url.query, "limit")

\* the group id in the first answer of the running call
CreatedGroupId == Get(delivered[1].body, "groupId").fmt
\* C12: sendOneFuture and sendManyFuture issue createGroup, then
\* addMessagesToGroup, then reserveGroup, each only after the previous answer
\* arrived (at most one request without an answer), and the two later requests
\* address the group id of the createGroup answer.
C12_FutureStepsInOrder ==
    op \in FutureOps =>
        /\ Len(calls) \in 1..3
        /\ Len(calls) <= Len(delivered) + 1
        /\ \A i \in 1..Len(calls) : i > 1 => delivered[i - 1].ok
        /\ calls[1].method = "POST" /\ calls[1].url.path = <<"/messages/v4/groups">>
        /\ Len(calls) >= 2 =>
              /\ calls[2].method = "PUT"
              /\ calls[2].url.path = <<"/messages/v4/groups/", CreatedGroupId, "/messages">>
        /\ Len(calls) >= 3 =>
              /\ calls[3].method = "POST"
              /\ calls[3].url.path = <<"/messages/v4/groups/", CreatedGroupId, "/schedule">>
C12_Witness ==
    /\ op = "sendOneFuture" /\ pc = "done" /\ outcome.status = "resolved"
    /\ Len(calls) = 3 /\ Len(delivered) = 3
    /\ CreatedGroupId = "G2"
    /\ calls[2].url.path[2] = "G2" /\ calls[3].url.path[2] = "G2"

\* whether a value is a Date or holds one in a property, at any depth
RECURSIVE ContainsDate(_)
ContainsDate(v) ==
    \/ v.tag = "Date"
    \/ \E i \in 1..Len(v.props) : ContainsDate(v.props[i].v)
\* the methods whose requests carry dates
DateOps == FutureOps \cup {"reserveGroup"} \cup ListOps
\* C13: nothing handed to the transport or to qs.stringify holds a raw Date:
\* the finalized blacklist request's gte / lte and the scheduledDate of the
\* reserveGroup payload are strings, whether the caller gave a Date or a string.
C13_NoRawDateInPayloads ==
    op \in DateOps =>
        /\ ~ContainsDate(frame.payload)
        /\ \A i \in 1..Len(calls) : ~ContainsDate(calls[i].payload)
        /\ \A key \in Keys(Get(frame.payload, "dateCreated")) :
              Get(Get(frame.payload, "dateCreated"), key).tag = "string"
        /\ \A i \in 1..Len(calls) :
              HasKey(calls[i].payload, "scheduledDate") =>
                  Get(calls[i].payload, "scheduledDate").tag = "string"
C13_Witness ==
    /\ op = "reserveGroup" /\ calls # <<>>
    /\ frame.scheduledDate = DateObj("valid", 2)
    /\ Get(calls[1].payload, "scheduledDate") = Str("iso", 2)
C13_BlacksWitness ==
    /\ BlacksPayloadBuilt
    /\ Get(frame.data, "startDate").tag = "Date"
    /\ Get(frame.data, "endDate") = Str("ymd", 1)
    /\ Get(frame.payload, "dateCreated") =
          Obj(<<Prop("gte", Str("iso", Get(frame.data, "startDate").n)),
                Prop("lte", Str("iso", 1))>>)

KakaoChannelsAnswered ==
    op = "getKakaoChannels" /\ pc = "done" /\ delivered # <<>> /\ delivered[1].ok
\* C14: getKakaoChannels returns the response's limit, startKey and nextKey
\* unchanged (null stays null) and a channelList with one KakaoChannel per raw
\* entry, in the same order, each built from the entry at its position.
C14_KakaoChannelsPageMapped ==
    KakaoChannelsAnswered =>
        LET raw == delivered[1].body
            result == outcome.value
        IN /\ outcome.status = "resolved"
           /\ result.limit = raw.limit
           /\ result.startKey = raw.startKey
           /\ result.nextKey = raw.nextKey
           /\ Len(result.channelList) = Len(raw.list)
           /\ \A i \in 1..Len(raw.list) :
                 /\ result.channelList[i].class = "KakaoChannel"
                 /\ result.channelList[i].id = raw.list[i].id
                 /\ result.channelList[i].name = raw.list[i].name
C14_Witness ==
    /\ KakaoChannelsAnswered
    /\ delivered[1].body.nextKey = "k2" /\ outcome.value.nextKey = "k2"
    /\ Len(delivered[1].body.list) >= 2
    /\ delivered[1].body.list[1] # delivered[1].body.list[2]
    /\ outcome.value.channelList[2].id = delivered[1].body.list[2].id
C14_LastPageWitness ==
    /\ KakaoChannelsAnswered
    /\ delivered[1].body.nextKey = "null" /\ outcome.value.nextKey = "null"

C15_MalformedWitness ==
    /\ op = "send" /\ pc = "done"
    /\ frame.data = Str("garbage", 0)
    /\ Len(calls) = 1 /\ outcome.status = "resolved"

====
